---- MODULE Spec2Model ----
(***************************************************************************)
(* cmake-common: the Boost build-parameter expansion                       *)
(* (project/boost/build.py), the toolchain strategies                      *)
(* (project/boost/toolchain.py, project/cmake/toolchain.py), the CI        *)
(* adapters (project/ci/appveyor/cmake.py, boost/build/ci/travis.py) and   *)
(* the enumerations of the command line.                                   *)
(*                                                                         *)
(* Strings are TLA+ strings built with \o exactly as the f-strings build   *)
(* them; paths are sequences of components joined with the separator of    *)
(* the operating system.                                                   *)
(***************************************************************************)
EXTENDS Integers, Sequences, FiniteSets, TLC

VARIABLES
    os,         \* the operating system the script runs on
    args,       \* the arguments BuildParameters was constructed with
    self,       \* the fields of the BuildParameters object
    gen,        \* the enum_b2_args generator: its position and its locals
    fs,         \* the directories and files that exist
    yielded,    \* the argument lists enum_b2_args has produced so far
    combos,     \* the loop variables of enum_b2_args at each of those yields
    consumer,   \* the loop that consumes enum_b2_args
    path_files, \* the files in the directories of the search path
    files,      \* the configuration files the toolchain strategies wrote
    tc,         \* one use of a toolchain strategy: its request and its results
    ci,         \* one run of a CI adapter: its environment and what it did
    en,         \* one value of an enumeration being parsed and stringified
    ex          \* one resolution of a compiler executable: its input and result

\* The state of the build-parameter expansion.
bvars == <<args, self, gen, fs, yielded, combos, consumer>>

\* The state of the toolchain strategies.
tvars == <<path_files, files, tc>>

\* The state of the CI adapters, of the enumerations and of the resolution
\* of executables.
cvars == <<ci, en, ex>>

vars == <<os, bvars, tvars, cvars>>

----------------------------------------------------------------------------
(* Bounds.                                                                 *)

\* The number of entries a request names in --platform, --configuration and
\* --link together.
MaxItems == 3

----------------------------------------------------------------------------
(* Strings.                                                                *)

\* None, where a string is expected.
None == "None"

\* None, where a path is expected.
NoDir == <<>>

StartsWith(s, p) == Len(s) >= Len(p) /\ SubSeq(s, 1, Len(p)) = p

Contains(s, sub) ==
    \E i \in 1..(Len(s) - Len(sub) + 1) : SubSeq(s, i, i + Len(sub) - 1) = sub

SeqsUpTo(S, n) == UNION {[1..m -> S] : m \in 0..n}

\* No run of a CI adapter.
NoAdapter ==
    [adapter |-> None, environ |-> <<>>,
     args |-> [install_dir |-> None, cmake_args |-> <<>>,
               link |-> [given |-> FALSE, values |-> <<>>],
               runtime_link |-> None, b2_args |-> <<>>],
     pc |-> "idle", reads |-> <<>>, steps |-> <<>>, error |-> ""]

\* No resolution of an executable.
NoExe ==
    [exe |-> "", present |-> {}, pc |-> "idle", raised |-> FALSE, value |-> "",
     error |-> ""]

\* No enumeration value in hand.
NoEnum ==
    [kind |-> None, origin |-> None, given |-> None, pc |-> "idle", text |-> "",
     value |-> None, error |-> ""]

----------------------------------------------------------------------------
(* The operating system (project/utils.py, project/os.py).                 *)

OS == {"linux", "windows", "cygwin"}

on_linux(o) == o = "linux"

on_windows(o) == o = "windows"

on_cygwin(o) == o = "cygwin"

\* os.sep
sep(o) == IF on_windows(o) THEN "\\" ELSE "/"

RECURSIVE join_from(_, _, _)
join_from(o, parts, n) ==
    IF n > Len(parts) THEN ""
    ELSE sep(o) \o parts[n] \o join_from(o, parts, n + 1)

\* os.path.join of the components of a path.
path_join(o, parts) ==
    IF parts = <<>> THEN "" ELSE parts[1] \o join_from(o, parts, 2)

\* os.path.dirname of a path given by its components.
dirname(parts) == SubSeq(parts, 1, Len(parts) - 1)

\* The directory the script is started in.
cwd(o) == IF on_windows(o) THEN <<"C:", "w">> ELSE <<"", "w">>

\* project.utils.normalize_path: the absolute path of a path relative to the
\* current directory.
normalize_path(o, rel) == cwd(o) \o rel

----------------------------------------------------------------------------
(* The enumerations (project/platform.py, project/configuration.py,        *)
(* project/linkage.py).                                                    *)

Platform == {"X86", "X64"}

Platform_all == <<"X86", "X64">>

Platform_str(p) == IF p = "X86" THEN "x86" ELSE "x64"

get_address_model(p) == IF p = "X86" THEN 32 ELSE 64

Configuration == {"DEBUG", "RELEASE"}

Configuration_all == <<"DEBUG", "RELEASE">>

Configuration_str(c) == IF c = "DEBUG" THEN "debug" ELSE "release"

to_boost_variant(c) == IF c = "DEBUG" THEN "debug" ELSE "release"

STATIC == "STATIC"

SHARED == "SHARED"

Linkage == {STATIC, SHARED}

Linkage_all == <<STATIC, SHARED>>

Linkage_str(l) == IF l = STATIC THEN "static" ELSE "shared"

----------------------------------------------------------------------------
(* BuildParameters (project/boost/build.py).                               *)

\* Python's "x or default" on a list: the empty list counts as absent.
list_or(x, d) == IF x = <<>> THEN d ELSE x

\* BuildParameters.__init__
BuildParameters(o, a) ==
    [boost_dir      |-> normalize_path(o, a.boost_dir),
     stage_dir      |-> "stage",
     build_dir      |-> IF a.build_dir # NoDir
                        THEN normalize_path(o, a.build_dir) ELSE NoDir,
     platforms      |-> list_or(a.platforms, Platform_all),
     configurations |-> list_or(a.configurations, Configuration_all),
     link           |-> list_or(a.link, Linkage_all),
     runtime_link   |-> IF a.runtime_link = None THEN STATIC ELSE a.runtime_link,
     b2_args        |-> list_or(a.b2_args, <<>>)]

\* One turn of the loop of _linkage_options, with the plausible slip of
\* leaving out the correction for a shared library.
linkage_option_no_shared_fix(o, link, runtime_link) ==
    IF runtime_link = STATIC /\ on_linux(o)
    THEN <<link, SHARED>>
    ELSE <<link, runtime_link>>

\* One turn of the loop of _linkage_options, with the plausible slip of
\* leaving out the correction for Linux.
linkage_option_no_linux_fix(o, link, runtime_link) ==
    IF runtime_link = STATIC /\ link = SHARED
    THEN <<link, SHARED>>
    ELSE <<link, runtime_link>>

\* One turn of the loop of _linkage_options, with the plausible slip of
\* making the library static where the runtime should become shared.
linkage_option_changes_link(o, link, runtime_link) ==
    IF runtime_link = STATIC
    THEN IF link = SHARED
         THEN <<STATIC, runtime_link>>
         ELSE IF on_linux(o)
              THEN <<link, SHARED>>
              ELSE <<link, runtime_link>>
    ELSE <<link, runtime_link>>

\* One turn of the loop of BuildParameters._linkage_options: the pair it
\* yields for one requested library linkage.
linkage_option(o, link, runtime_link) ==
    IF runtime_link = STATIC
    THEN IF link = SHARED
         THEN <<link, SHARED>>
         ELSE IF on_linux(o)
              THEN <<link, SHARED>>
              ELSE <<link, runtime_link>>
    ELSE <<link, runtime_link>>

\* BuildParameters._linkage_options: the pairs it yields, in order.
_linkage_options(o, s) ==
    [n \in 1..Len(s.link) |-> linkage_option(o, s.link[n], s.runtime_link)]

\* BuildParameters._build_dir
_build_dir(o, build_dir) == "--build-dir=" \o path_join(o, build_dir)

\* _stagedir with the configuration left out of the directory.
_stagedir_platform_only(o, s, platform, configuration) ==
    "--stagedir=" \o path_join(o, <<s.stage_dir, Platform_str(platform)>>)

\* BuildParameters._stagedir
_stagedir(o, s, platform, configuration) ==
    "--stagedir=" \o path_join(o, <<s.stage_dir, Platform_str(platform),
                                    Configuration_str(configuration)>>)

\* BuildParameters._link
_link(link) == "link=" \o Linkage_str(link)

\* BuildParameters._runtime_link
_runtime_link(runtime_link) == "runtime-link=" \o Linkage_str(runtime_link)

\* BuildParameters._address_model
_address_model(platform) ==
    "address-model=" \o ToString(get_address_model(platform))

\* BuildParameters._variant
_variant(configuration) == "variant=" \o to_boost_variant(configuration)

\* _build_params with the pass-through arguments put first.
_build_params_args_first(o, s, build_dir, platform, configuration, link, runtime_link) ==
    s.b2_args \o
    <<_build_dir(o, build_dir),
      _stagedir(o, s, platform, configuration),
      _link(link),
      _runtime_link(runtime_link),
      _address_model(platform),
      _variant(configuration)>>

\* BuildParameters._build_params
_build_params(o, s, build_dir, platform, configuration, link, runtime_link) ==
    <<_build_dir(o, build_dir),
      _stagedir(o, s, platform, configuration),
      _link(link),
      _runtime_link(runtime_link),
      _address_model(platform),
      _variant(configuration)>>
    \o s.b2_args

----------------------------------------------------------------------------
(* _create_build_dir: the context manager around the loops of              *)
(* enum_b2_args.                                                           *)

\* The names tempfile.TemporaryDirectory may pick.
TmpNames == {"tmpk3b2", "tmpx9qa"}

\* _create_build_dir that makes a temporary directory for every request.
_create_build_dir_enter_always_temp(s, fsys) ==
    {d \in {dirname(s.boost_dir) \o <<n>> : n \in TmpNames} : d \notin fsys}

\* The directories _create_build_dir may hand to the with statement: the
\* explicit build directory, or a new directory beside the Boost directory.
_create_build_dir_enter(s, fsys) ==
    IF s.build_dir # NoDir
    THEN {s.build_dir}
    ELSE {d \in {dirname(s.boost_dir) \o <<n>> : n \in TmpNames} : d \notin fsys}

\* Leaving the with statement without removing the temporary directory, as
\* tempfile.mkdtemp in place of tempfile.TemporaryDirectory would.
_create_build_dir_exit_leak(s, fsys, build_dir) == fsys

\* What exists once the with statement of _create_build_dir is left: the
\* explicit directory is kept, the temporary one is removed.
_create_build_dir_exit(s, fsys, build_dir) ==
    IF s.build_dir # NoDir THEN fsys ELSE fsys \ {build_dir}

----------------------------------------------------------------------------
(* enum_b2_args: a generator.  Its position is (i, j, k): the indices of   *)
(* the platform, the configuration and the linkage option of the last      *)
(* yield.                                                                  *)

\* The argument list for the combination at (i, j, k).
yield_at(o, s, build_dir, i, j, k) ==
    LET opt == _linkage_options(o, s)[k]
    IN  _build_params(o, s, build_dir, s.platforms[i], s.configurations[j],
                      opt[1], opt[2])

\* The loop variables at (i, j, k).
combo_at(o, s, i, j, k) ==
    LET opt == _linkage_options(o, s)[k]
    IN  [i |-> i, j |-> j, k |-> k,
         platform |-> s.platforms[i], configuration |-> s.configurations[j],
         link |-> opt[1], runtime_link |-> opt[2]]

\* The position after (i, j, k) with the linkage options as the outer loop.
next_position_link_outer(s, i, j, k) ==
    IF j < Len(s.configurations) THEN <<i, j + 1, k>>
    ELSE IF i < Len(s.platforms) THEN <<i + 1, 1, k>>
    ELSE IF k < Len(s.link) THEN <<1, 1, k + 1>>
    ELSE <<>>

\* The position after (i, j, k): linkage options innermost, then
\* configurations, then platforms; <<>> when the loops are over.
next_position(s, i, j, k) ==
    IF k < Len(s.link) THEN <<i, j, k + 1>>
    ELSE IF j < Len(s.configurations) THEN <<i, j + 1, 1>>
    ELSE IF i < Len(s.platforms) THEN <<i + 1, 1, 1>>
    ELSE <<>>

\* The first next(): the with statement is entered and the first
\* combination is yielded.
GenStart ==
    /\ consumer.pc = "iterating"
    /\ gen.state = "created"
    /\ \E d \in _create_build_dir_enter(self, fs) :
         /\ fs' = fs \cup {d}
         /\ gen' = [state |-> "suspended", build_dir |-> d, i |-> 1, j |-> 1, k |-> 1]
         /\ yielded' = Append(yielded, yield_at(os, self, d, 1, 1, 1))
         /\ combos' = Append(combos, combo_at(os, self, 1, 1, 1))
    /\ consumer' = [consumer EXCEPT !.pc = "handling"]
    /\ UNCHANGED <<cvars, tvars, os, args, self>>

\* A later next() that finds another combination.
GenResume ==
    /\ consumer.pc = "iterating"
    /\ gen.state = "suspended"
    /\ LET p == next_position(self, gen.i, gen.j, gen.k)
       IN  /\ p # <<>>
           /\ gen' = [gen EXCEPT !.i = p[1], !.j = p[2], !.k = p[3]]
           /\ yielded' = Append(yielded,
                                yield_at(os, self, gen.build_dir, p[1], p[2], p[3]))
           /\ combos' = Append(combos, combo_at(os, self, p[1], p[2], p[3]))
    /\ consumer' = [consumer EXCEPT !.pc = "handling"]
    /\ UNCHANGED <<cvars, tvars, os, args, self, fs>>

\* A later next() that finds the loops over: the with statement is left
\* and the for loop of the consumer ends.
GenExhaust ==
    /\ consumer.pc = "iterating"
    /\ gen.state = "suspended"
    /\ next_position(self, gen.i, gen.j, gen.k) = <<>>
    /\ fs' = _create_build_dir_exit(self, fs, gen.build_dir)
    /\ gen' = [gen EXCEPT !.state = "exhausted"]
    /\ consumer' = [consumer EXCEPT !.pc = "finished"]
    /\ UNCHANGED <<cvars, tvars, os, args, self, yielded, combos>>

\* The generator is finalised while suspended at its yield: GeneratorExit
\* is raised there and the with statement is left.
GenClose ==
    /\ consumer.pc \in {"unwinding", "leaving"}
    /\ gen.state = "suspended"
    /\ fs' = _create_build_dir_exit(self, fs, gen.build_dir)
    /\ gen' = [gen EXCEPT !.state = "closed"]
    /\ UNCHANGED <<cvars, tvars, os, args, self, yielded, combos, consumer>>

----------------------------------------------------------------------------
(* The consumer: BoostDir.build, a for loop over params.enum_b2_args()     *)
(* that runs b2 with each argument list.                                   *)

\* The build step for the current argument list succeeds.
ConsumerHandled ==
    /\ consumer.pc = "handling"
    /\ consumer' = [consumer EXCEPT !.pc = "iterating", !.handled = @ + 1]
    /\ UNCHANGED <<cvars, tvars, os, args, self, gen, fs, yielded, combos>>

\* The build step for the current argument list fails: the exception
\* leaves the loop.
ConsumerRaise ==
    /\ consumer.pc = "handling"
    /\ consumer' = [consumer EXCEPT !.pc = "unwinding", !.outcome = "error"]
    /\ UNCHANGED <<cvars, tvars, os, args, self, gen, fs, yielded, combos>>

\* The consumer stops iterating before the sequence is exhausted.
ConsumerBreak ==
    /\ consumer.pc = "handling"
    /\ consumer' = [consumer EXCEPT !.pc = "leaving"]
    /\ UNCHANGED <<cvars, tvars, os, args, self, gen, fs, yielded, combos>>

\* The call returns, or the exception propagates out of it.  The loop held
\* the only reference to the generator, which has been finalised by then.
ConsumerReturn ==
    /\ consumer.pc \in {"finished", "unwinding", "leaving"}
    /\ gen.state # "suspended"
    /\ consumer' = [consumer EXCEPT !.pc = "returned"]
    /\ UNCHANGED <<cvars, tvars, os, args, self, gen, fs, yielded, combos>>

----------------------------------------------------------------------------
(* Paths as strings, and the search path.                                  *)

\* os.path.join of two strings.
join2(o, a, b) == a \o sep(o) \o b

\* The characters that separate the components of a path.
seps(o) == IF on_windows(o) THEN {"\\", "/"} ELSE {"/"}

\* The index of the last separator of a path, 0 when it has none.
last_sep(o, p) ==
    LET at == {i \in 1..Len(p) : SubSeq(p, i, i) \in seps(o)}
    IN  IF at = {} THEN 0 ELSE CHOOSE i \in at : \A j \in at : j <= i

\* os.path.dirname of a string.
str_dirname(o, p) ==
    LET i == last_sep(o, p)
    IN  IF i <= 1 THEN SubSeq(p, 1, i) ELSE SubSeq(p, 1, i - 1)

\* os.path.basename of a string.
str_basename(o, p) == SubSeq(p, last_sep(o, p) + 1, Len(p))

\* The one directory of the search path.
bin_dir(o) == IF on_windows(o) THEN "C:\\tools" ELSE "/usr/bin"

\* os.path.exists.  Cygwin finds name.exe under the name too.
exists(o, present, p) ==
    \/ p \in present
    \/ on_cygwin(o) /\ (p \o ".exe") \in present

\* PATHEXT on Windows.
PATHEXT == <<".exe">>

\* Whether a command ends with an extension of PATHEXT.
has_pathext(cmd) ==
    \E n \in 1..Len(PATHEXT) :
        /\ Len(cmd) >= Len(PATHEXT[n])
        /\ SubSeq(cmd, Len(cmd) - Len(PATHEXT[n]) + 1, Len(cmd)) = PATHEXT[n]

\* shutil.which(cmd, path=dir_path); "" stands for None.  A command with a
\* directory is looked up as it is; any other command is looked up in the
\* search path, on Windows with the extensions of PATHEXT.
which(o, present, cmd) ==
    IF str_dirname(o, cmd) # ""
    THEN IF exists(o, present, cmd) THEN cmd ELSE ""
    ELSE LET candidates ==
                 IF on_windows(o) /\ ~has_pathext(cmd)
                 THEN [n \in 1..Len(PATHEXT) |-> cmd \o PATHEXT[n]]
                 ELSE <<cmd>>
             found == {n \in 1..Len(candidates) :
                          exists(o, present, join2(o, bin_dir(o), candidates[n]))}
         IN  IF found = {} THEN ""
             ELSE join2(o, bin_dir(o),
                        candidates[CHOOSE n \in found : \A m \in found : n <= m])

----------------------------------------------------------------------------
(* project/boost/toolchain.py                                              *)

ToolchainType == {"AUTO", "MSVC", "GCC", "MINGW", "CLANG", "CLANG_CL"}

\* The outcome of a call: a value, or the message of the RuntimeError raised.
returned(v) == [raised |-> FALSE, value |-> v, error |-> ""]

raised(msg) == [raised |-> TRUE, value |-> "", error |-> msg]

\* _full_exe_name that returns the name as given when the search fails.
_full_exe_name_unchecked(o, present, exe) ==
    IF on_linux(o) THEN returned(exe)
    ELSE LET dir_path == str_dirname(o, exe)
             found == which(o, present, exe)
             path == IF found = "" THEN exe ELSE found
             full == IF /\ on_cygwin(o)
                        /\ exists(o, present, path)
                        /\ exists(o, present, path \o ".exe")
                     THEN path \o ".exe" ELSE path
         IN  IF dir_path # "" THEN returned(full)
             ELSE returned(str_basename(o, full))

\* _full_exe_name that returns the basename for every name it finds.
_full_exe_name_basename(o, present, exe) ==
    IF on_linux(o) THEN returned(exe)
    ELSE LET path == which(o, present, exe)
             full == IF /\ on_cygwin(o)
                        /\ exists(o, present, path)
                        /\ exists(o, present, path \o ".exe")
                     THEN path \o ".exe" ELSE path
         IN  IF path = ""
             THEN raised("executable '" \o exe \o "' could not be found")
             ELSE returned(str_basename(o, full))

\* _full_exe_name
_full_exe_name(o, present, exe) ==
    IF on_linux(o) THEN returned(exe)
    ELSE LET dir_path == str_dirname(o, exe)
             path == which(o, present, exe)
             full == IF /\ on_cygwin(o)
                        /\ exists(o, present, path)
                        /\ exists(o, present, path \o ".exe")
                     THEN path \o ".exe" ELSE path
         IN  IF path = ""
             THEN raised("executable '" \o exe \o "' could not be found")
             ELSE IF dir_path # "" THEN returned(full)
             ELSE returned(str_basename(o, full))

\* BootstrapToolchain.detect: the class it chooses for a hint.
bootstrap_detect_kind(hint) ==
    CASE hint = "AUTO" -> "BootstrapAuto"
      [] hint = "MSVC" -> "BootstrapMSVC"
      [] hint = "GCC" -> "BootstrapGCC"
      [] hint = "MINGW" -> "BootstrapMinGW"
      [] hint = "CLANG" -> "BootstrapClang"
      [] hint = "CLANG_CL" -> "BootstrapClangCL"

\* _gcc_or_auto
_gcc_or_auto(o, present) ==
    IF which(o, present, "gcc") # "" THEN <<"gcc">> ELSE <<>>

\* get_bootstrap_bat_args, by class.
get_bootstrap_bat_args(o, present, kind) ==
    CASE kind \in {"BootstrapAuto", "BootstrapMSVC"} -> <<>>
      [] kind = "BootstrapGCC" -> <<"gcc">>
      [] kind \in {"BootstrapMinGW", "BootstrapClang", "BootstrapClangCL"} ->
             _gcc_or_auto(o, present)

\* get_bootstrap_sh_args, by class.
get_bootstrap_sh_args(kind) ==
    CASE kind \in {"BootstrapAuto", "BootstrapMSVC", "BootstrapMinGW"} -> <<>>
      [] kind = "BootstrapGCC" -> <<"--with-toolset=gcc">>
      [] kind \in {"BootstrapClang", "BootstrapClangCL"} ->
             <<"--with-toolset=clang">>

\* No toolset.
NoToolset == [compiler |-> "", version |-> "", path |-> "", options |-> <<>>]

\* BoostBuildToolset.__init__: the toolset, or the error raised.
BoostBuildToolset(o, present, compiler, path, options) ==
    IF compiler = ""
    THEN [raised |-> TRUE, value |-> NoToolset,
          error |-> "compiler type is required (like gcc, clang, etc.)"]
    ELSE LET exe == IF path = "" THEN returned("") ELSE _full_exe_name(o, present, path)
         IN  IF exe.raised
             THEN [raised |-> TRUE, value |-> NoToolset, error |-> exe.error]
             ELSE [raised |-> FALSE, error |-> "",
                   value |-> [compiler |-> compiler, version |-> "custom",
                              path |-> exe.value, options |-> options]]

\* BoostBuildToolset.toolset
toolset_name(t) ==
    IF t.version # "" THEN t.compiler \o "-" \o t.version ELSE t.compiler

\* BoostBuildToolset.b2_args
toolset_b2_args(t) == <<"toolset=" \o toolset_name(t)>>

RECURSIVE format_options_from(_, _)
format_options_from(options, n) ==
    IF n > Len(options) THEN ""
    ELSE "\n    <" \o options[n][1] \o ">" \o options[n][2]
             \o format_options_from(options, n + 1)

\* BoostBuildToolset._format_using_options
_format_using_options(t) == format_options_from(t.options, 1)

\* BoostBuildToolset.format_using
format_using(t) ==
    LET version == IF t.version # "" THEN t.version \o " " ELSE ""
        path == IF t.path # "" THEN t.path \o " " ELSE ""
    IN  "using " \o t.compiler \o " : " \o version \o ": " \o path \o ":"
            \o _format_using_options(t) \o "\n;"

\* Platform.b2_args (project/platform.py): the arguments of the platform
\* for one configuration.
Platform_b2_args(o, platform, configuration) ==
    <<"--stagedir=" \o path_join(o, <<"stage", Platform_str(platform),
                                      Configuration_str(configuration)>>),
      "address-model=" \o ToString(get_address_model(platform))>>

\* GCC.get_options with the second suppression left out.
GCC_get_options_one_flag == <<<<"cxxflags", "-Wno-deprecated-declarations">>>>

\* GCC.get_options
GCC_get_options ==
    <<<<"cxxflags", "-Wno-deprecated-declarations">>,
      <<"cxxflags", "-Wno-parentheses">>>>

\* project.mingw: the name of the MinGW-w64 g++ for a platform.
mingw_gxx(platform) ==
    (IF platform = "X86" THEN "i686" ELSE "x86_64") \o "-w64-mingw32-g++"

\* The compiler executable a strategy asks for.
compiler_exe(kind, platform) ==
    CASE kind = "GCC" -> "g++"
      [] kind = "MinGW" -> mingw_gxx(platform)
      [] kind = "Clang" -> "clang++"
      [] OTHER -> ""

\* GCC.get_toolset
GCC_get_toolset(o, present, platform) ==
    BoostBuildToolset(o, present, "gcc", "g++", GCC_get_options)

\* MinGW.get_toolset
MinGW_get_toolset(o, present, platform) ==
    BoostBuildToolset(o, present, "gcc", mingw_gxx(platform), GCC_get_options)

\* Clang.get_toolset
Clang_get_toolset(o, present, platform) ==
    LET base == <<<<"cxxflags", "-DBOOST_USE_WINDOWS_H">>,
                  <<"cxxflags", "-Wno-unused-local-typedef">>,
                  <<"cxxflags", "-Wno-c++11-narrowing">>>> \o GCC_get_options
        ar == IF on_windows(o) /\ which(o, present, "llvm-ar") # ""
              THEN <<<<"archiver", "llvm-ar">>>> ELSE <<>>
        ranlib == IF on_windows(o) /\ which(o, present, "llvm-ranlib") # ""
                  THEN <<<<"ranlib", "llvm-ranlib">>>> ELSE <<>>
    IN  BoostBuildToolset(o, present, "clang", "clang++", base \o ar \o ranlib)

\* GCC.format_config
GCC_format_config(t) == format_using(t)

\* Clang.format_config with the release library under the debug variant.
Clang_format_config_release_lib(t) ==
    "project : requirements\n"
    \o "    <target-os>windows:<define>_MT\n"
    \o "    <target-os>windows,<variant>debug:<define>_DEBUG\n"
    \o "    <target-os>windows,<runtime-link>static,<variant>debug:<cxxflags>\"-Xclang -flto-visibility-public-std -Xclang --dependent-lib=libcmt\"\n"
    \o "    <target-os>windows,<runtime-link>static,<variant>release:<cxxflags>\"-Xclang -flto-visibility-public-std -Xclang --dependent-lib=libcmt\"\n"
    \o "    <target-os>windows,<runtime-link>shared,<variant>debug:<cxxflags>\"-D_DLL -Xclang --dependent-lib=msvcrtd\"\n"
    \o "    <target-os>windows,<runtime-link>shared,<variant>release:<cxxflags>\"-D_DLL -Xclang --dependent-lib=msvcrt\"\n"
    \o ";\n"
    \o format_using(t) \o "\n"

\* Clang.format_config
Clang_format_config(t) ==
    "project : requirements\n"
    \o "    <target-os>windows:<define>_MT\n"
    \o "    <target-os>windows,<variant>debug:<define>_DEBUG\n"
    \o "    <target-os>windows,<runtime-link>static,<variant>debug:<cxxflags>\"-Xclang -flto-visibility-public-std -Xclang --dependent-lib=libcmtd\"\n"
    \o "    <target-os>windows,<runtime-link>static,<variant>release:<cxxflags>\"-Xclang -flto-visibility-public-std -Xclang --dependent-lib=libcmt\"\n"
    \o "    <target-os>windows,<runtime-link>shared,<variant>debug:<cxxflags>\"-D_DLL -Xclang --dependent-lib=msvcrtd\"\n"
    \o "    <target-os>windows,<runtime-link>shared,<variant>release:<cxxflags>\"-D_DLL -Xclang --dependent-lib=msvcrt\"\n"
    \o ";\n"
    \o format_using(t) \o "\n"

\* The class Toolchain.detect chooses for a hint.
detect_kind(hint) ==
    CASE hint = "AUTO" -> "Auto"
      [] hint = "MSVC" -> "MSVC"
      [] hint = "GCC" -> "GCC"
      [] hint = "MINGW" -> "MinGW"
      [] hint = "CLANG" -> "Clang"
      [] hint = "CLANG_CL" -> "ClangCL"

\* The classes that derive from ConfigFile.
ConfigFileKinds == {"GCC", "MinGW", "Clang"}

\* cls.get_toolset
get_toolset(kind, o, present, platform) ==
    CASE kind = "GCC" -> GCC_get_toolset(o, present, platform)
      [] kind = "MinGW" -> MinGW_get_toolset(o, present, platform)
      [] kind = "Clang" -> Clang_get_toolset(o, present, platform)

\* cls.format_config
format_config(kind, t) ==
    IF kind = "Clang" THEN Clang_format_config(t) ELSE GCC_format_config(t)

\* project.utils.temp_file: the path of a new file in the temporary
\* directory.
temp_file_path(o, prefix, name, suffix) ==
    join2(o, IF on_windows(o) THEN "C:\\Temp" ELSE "/tmp", prefix \o name \o suffix)

\* ClangCL.b2_args
ClangCL_b2_args(o, platform, configuration) ==
    Platform_b2_args(o, platform, configuration)
        \o <<"toolset=clang-win", "define=BOOST_USE_WINDOWS_H">>

\* MSVC.b2_args
MSVC_b2_args(o, platform, configuration) ==
    Platform_b2_args(o, platform, configuration) \o <<"toolset=msvc">>

\* ConfigFile.b2_args
ConfigFile_b2_args(o, platform, configuration, config_path, t) ==
    Platform_b2_args(o, platform, configuration)
        \o <<"--user-config=" \o config_path>> \o toolset_b2_args(t)

\* toolchain.b2_args(configuration), by class.
b2_args_of(o, t) ==
    CASE t.kind = "MSVC" -> MSVC_b2_args(o, t.platform, t.configuration)
      [] t.kind = "ClangCL" -> ClangCL_b2_args(o, t.platform, t.configuration)
      [] t.kind \in ConfigFileKinds ->
             ConfigFile_b2_args(o, t.platform, t.configuration, t.config_path, t.toolset)
      [] OTHER -> Platform_b2_args(o, t.platform, t.configuration)

\* The files a strategy has written that exist.
written(path) == {f \in files : f.path = path}

\* Toolchain.detect is entered for a hint that needs no configuration
\* file: the strategy is constructed and yielded.
BoostDetectPlain ==
    /\ tc.side = "boost"
    /\ tc.pc = "start"
    /\ detect_kind(tc.hint) \notin ConfigFileKinds
    /\ tc' = [tc EXCEPT !.pc = "entered", !.kind = detect_kind(tc.hint)]
    /\ UNCHANGED <<cvars, os, bvars, path_files, files>>

\* Toolchain.detect is entered for gcc, mingw or clang: ConfigFile.setup
\* makes the toolset, formats the configuration, writes it to a temporary
\* file and yields the strategy.
BoostDetectConfigFile ==
    /\ tc.side = "boost"
    /\ tc.pc = "start"
    /\ detect_kind(tc.hint) \in ConfigFileKinds
    /\ LET kind == detect_kind(tc.hint)
           made == get_toolset(kind, os, path_files, tc.platform)
       IN  /\ ~made.raised
           /\ \E n \in TmpNames :
                LET path == temp_file_path(os, "user_config_", n, ".jam")
                IN  /\ written(path) = {}
                    /\ files' = files \cup
                           {[path |-> path, content |-> format_config(kind, made.value)]}
                    /\ tc' = [tc EXCEPT !.pc = "entered", !.kind = kind,
                                        !.toolset = made.value, !.config_path = path]
    /\ UNCHANGED <<cvars, os, bvars, path_files>>

\* Toolchain.detect is entered for gcc, mingw or clang and the toolset
\* cannot be made: the error leaves ConfigFile.setup before anything is
\* written.
BoostDetectFails ==
    /\ tc.side = "boost"
    /\ tc.pc = "start"
    /\ detect_kind(tc.hint) \in ConfigFileKinds
    /\ LET made == get_toolset(detect_kind(tc.hint), os, path_files, tc.platform)
       IN  /\ made.raised
           /\ tc' = [tc EXCEPT !.pc = "failed", !.error = made.error]
    /\ UNCHANGED <<cvars, os, bvars, path_files, files>>

\* The body of the with statement asks the strategy for its b2 arguments.
BoostB2Args ==
    /\ tc.side = "boost"
    /\ tc.pc = "entered"
    /\ tc' = [tc EXCEPT !.pc = "used", !.b2_args = b2_args_of(os, tc)]
    /\ UNCHANGED <<cvars, os, bvars, path_files, files>>

\* The bootstrap strategy of a hint is made and asked for the arguments of
\* bootstrap.bat and of bootstrap.sh.
BootstrapArgs ==
    /\ tc.side = "bootstrap"
    /\ tc.pc = "start"
    /\ LET kind == bootstrap_detect_kind(tc.hint)
       IN  tc' = [tc EXCEPT !.pc = "used", !.kind = kind,
                           !.bat_args = get_bootstrap_bat_args(os, path_files, kind),
                           !.sh_args = get_bootstrap_sh_args(kind)]
    /\ UNCHANGED <<cvars, os, bvars, path_files, files>>

\* The with statement is left and the temporary file stays.
BoostExit_leaves_file ==
    /\ tc.side = "boost"
    /\ tc.pc \in {"entered", "used"}
    /\ tc' = [tc EXCEPT !.pc = "exited"]
    /\ UNCHANGED <<cvars, os, bvars, path_files, files>>

\* The with statement is left, by its end or by an error of its body: the
\* temporary file of temp_file is deleted.
BoostExit ==
    /\ tc.side = "boost"
    /\ tc.pc \in {"entered", "used"}
    /\ files' = files \ written(tc.config_path)
    /\ tc' = [tc EXCEPT !.pc = "exited"]
    /\ UNCHANGED <<cvars, os, bvars, path_files>>

----------------------------------------------------------------------------
(* project/cmake/toolchain.py                                              *)

\* Platform.get_cmake_arch (project/platform.py)
get_cmake_arch(platform) == IF platform = "X86" THEN "Win32" ELSE "x64"

\* Toolchain.detect that leaves the hint auto as it is for any platform.
cmake_detect_kind_auto_plain(o, hint, platform) == detect_kind(hint)

\* Toolchain.detect: the class it chooses for a hint and a platform.
cmake_detect_kind(o, hint, platform) ==
    LET h == IF hint = "AUTO" /\ platform # None
             THEN IF on_windows(o) THEN "MSVC" ELSE "GCC"
             ELSE hint
    IN  detect_kind(h)

\* The classes that derive from Makefile.
MakefileKinds == {"GCC", "MinGW", "Clang", "ClangCL"}

\* Makefile._get_config_path
_get_config_path(o, build_dir) == join2(o, build_dir, "custom_toolchain.cmake")

\* Makefile._format_platform_compiler_flags
_format_platform_compiler_flags(platform) ==
    IF platform = None THEN ""
    ELSE "\nset(CMAKE_C_FLAGS   -m" \o ToString(get_address_model(platform)) \o ")\n"
         \o "set(CMAKE_CXX_FLAGS -m" \o ToString(get_address_model(platform)) \o ")\n"

\* GCC._format
cmake_GCC_format(platform) ==
    "\nset(CMAKE_C_COMPILER   gcc)\nset(CMAKE_CXX_COMPILER g++)\n"
        \o _format_platform_compiler_flags(platform)

\* project.mingw: the name of a MinGW-w64 tool for a platform.
mingw_tool(platform, tool) ==
    (IF platform = "X86" THEN "i686" ELSE "x86_64") \o "-w64-mingw32-" \o tool

\* MinGW._format
cmake_MinGW_format(platform) ==
    LET p == IF platform = None THEN "X64" ELSE platform
    IN  "\nset(CMAKE_C_COMPILER   " \o mingw_tool(p, "gcc") \o ")\n"
        \o "set(CMAKE_CXX_COMPILER " \o mingw_tool(p, "g++") \o ")\n"
        \o "set(CMAKE_AR           " \o mingw_tool(p, "gcc-ar") \o ")\n"
        \o "set(CMAKE_RANLIB       " \o mingw_tool(p, "gcc-ranlib") \o ")\n"
        \o "set(CMAKE_RC_COMPILER  " \o mingw_tool(p, "windres") \o ")\n"
        \o "set(CMAKE_SYSTEM_NAME  Windows)\n"

\* Clang._format
cmake_Clang_format(platform) ==
    "\nif(CMAKE_VERSION VERSION_LESS \"3.15\" AND WIN32)\n"
        \o "    set(CMAKE_C_COMPILER   clang-cl)\n"
        \o "    set(CMAKE_CXX_COMPILER clang-cl)\n"
        \o "else()\n"
        \o "    set(CMAKE_C_COMPILER   clang)\n"
        \o "    set(CMAKE_CXX_COMPILER clang++)\n"
        \o "endif()\n"
        \o _format_platform_compiler_flags(platform)

\* ClangCL._format
cmake_ClangCL_format(platform) ==
    "\nset(CMAKE_C_COMPILER   clang-cl)\n"
        \o "set(CMAKE_CXX_COMPILER clang-cl)\n"
        \o "set(CMAKE_SYSTEM_NAME  Windows)\n"
        \o _format_platform_compiler_flags(platform)

\* cls._format
cmake_format(kind, platform) ==
    CASE kind = "GCC" -> cmake_GCC_format(platform)
      [] kind = "MinGW" -> cmake_MinGW_format(platform)
      [] kind = "Clang" -> cmake_Clang_format(platform)
      [] kind = "ClangCL" -> cmake_ClangCL_format(platform)

\* Makefile._get_makefile_generator
_get_makefile_generator(o, present) ==
    IF on_windows(o) /\ which(o, present, "mingw32-make") # ""
    THEN "MinGW Makefiles" ELSE "Unix Makefiles"

\* Clang._get_makefile_generator
Clang_get_makefile_generator(o, present) ==
    IF on_windows(o) /\ which(o, present, "nmake") # ""
    THEN "NMake Makefiles" ELSE _get_makefile_generator(o, present)

\* get_cmake_args in which MSVC passes the platform on without looking at it.
get_cmake_args_msvc_unchecked(o, present, t) ==
    CASE t.kind = "Auto" -> <<>>
      [] t.kind = "MSVC" ->
             <<"-A", IF t.platform = None THEN None ELSE get_cmake_arch(t.platform)>>
      [] OTHER ->
             <<"-D", "CMAKE_TOOLCHAIN_FILE=" \o t.config_path,
               "-G", _get_makefile_generator(o, present)>>

\* get_cmake_args, by class.
get_cmake_args(o, present, t) ==
    CASE t.kind = "Auto" -> <<>>
      [] t.kind = "MSVC" ->
             IF t.platform = None THEN <<>> ELSE <<"-A", get_cmake_arch(t.platform)>>
      [] t.kind \in {"GCC", "MinGW"} ->
             <<"-D", "CMAKE_TOOLCHAIN_FILE=" \o t.config_path,
               "-G", _get_makefile_generator(o, present)>>
      [] t.kind \in {"Clang", "ClangCL"} ->
             <<"-D", "CMAKE_TOOLCHAIN_FILE=" \o t.config_path,
               "-G", Clang_get_makefile_generator(o, present)>>

\* get_build_args, by class.
get_build_args(t) == IF t.kind = "MSVC" THEN <<"/m">> ELSE <<>>

\* The build directory of the configuration tool.
cmake_build_dir(o) == path_join(o, cwd(o) \o <<"build">>)

\* Toolchain.detect returns a strategy that writes no file.
CMakeDetectPlain ==
    /\ tc.side = "cmake"
    /\ tc.pc = "start"
    /\ cmake_detect_kind(os, tc.hint, tc.platform) \notin MakefileKinds
    /\ tc' = [tc EXCEPT !.pc = "entered",
                        !.kind = cmake_detect_kind(os, tc.hint, tc.platform)]
    /\ UNCHANGED <<cvars, os, bvars, path_files, files>>

\* Toolchain.detect calls cls.setup: Makefile.write_config writes
\* custom_toolchain.cmake into the build directory, over an older one.
CMakeDetectMakefile ==
    /\ tc.side = "cmake"
    /\ tc.pc = "start"
    /\ cmake_detect_kind(os, tc.hint, tc.platform) \in MakefileKinds
    /\ LET kind == cmake_detect_kind(os, tc.hint, tc.platform)
           path == _get_config_path(os, cmake_build_dir(os))
       IN  /\ files' = (files \ written(path)) \cup
                  {[path |-> path, content |-> cmake_format(kind, tc.platform)]}
           /\ tc' = [tc EXCEPT !.pc = "entered", !.kind = kind, !.config_path = path]
    /\ UNCHANGED <<cvars, os, bvars, path_files>>

\* The build asks the strategy for its arguments and runs to its end.
CMakeArgs ==
    /\ tc.side = "cmake"
    /\ tc.pc = "entered"
    /\ tc' = [tc EXCEPT !.pc = "used",
                        !.cmake_args = get_cmake_args(os, path_files, tc),
                        !.build_args = get_build_args(tc)]
    /\ UNCHANGED <<cvars, os, bvars, path_files, files>>

\* The build invocation completes, by its end or by an error of the
\* configuration tool: the strategy holds nothing to release, and what
\* Makefile.write_config wrote into the build directory stays there.
CMakeExit ==
    /\ tc.side = "cmake"
    /\ tc.pc \in {"entered", "used"}
    /\ tc' = [tc EXCEPT !.pc = "exited"]
    /\ UNCHANGED <<cvars, os, bvars, path_files, files>>

----------------------------------------------------------------------------
(* The uses of a toolchain strategy.                                       *)

\* The files the strategies of a request look for in the search path.
probed(side, hint, platform) ==
    IF side = "cmake" THEN {"mingw32-make.exe", "nmake.exe"}
    ELSE IF side = "bootstrap" THEN {"gcc", "gcc.exe"}
    ELSE CASE hint = "GCC" -> {"g++", "g++.exe"}
           [] hint = "MINGW" -> {mingw_gxx(platform), mingw_gxx(platform) \o ".exe"}
           [] hint = "CLANG" ->
                  {"clang++", "clang++.exe", "llvm-ar.exe", "llvm-ranlib.exe"}
           [] OTHER -> {}

\* No use of a strategy.
NoToolchain ==
    [side |-> None, hint |-> None, platform |-> None, configuration |-> None,
     link |-> None, runtime_link |-> None, pc |-> "idle", kind |-> None,
     toolset |-> NoToolset, config_path |-> "", error |-> "",
     b2_args |-> <<>>, cmake_args |-> <<>>, build_args |-> <<>>,
     bat_args |-> <<>>, sh_args |-> <<>>]

\* No request to BuildParameters.
NoRequest ==
    [boost_dir |-> <<"boost_1_71_0">>, build_dir |-> NoDir, platforms |-> <<>>,
     configurations |-> <<>>, link |-> <<>>, runtime_link |-> None,
     b2_args |-> <<>>]

InitToolchain ==
    /\ os \in OS
    /\ \E side \in {"boost", "cmake", "bootstrap"}, hint \in ToolchainType,
          platform \in Platform \cup {None}, configuration \in Configuration,
          link \in Linkage, runtime_link \in Linkage :
         /\ side = "boost" => platform # None
         /\ side = "bootstrap" =>
                /\ platform = None
                /\ configuration = "DEBUG"
                /\ link = STATIC
                /\ runtime_link = STATIC
         /\ tc = [NoToolchain EXCEPT !.side = side, !.hint = hint,
                      !.platform = platform, !.configuration = configuration,
                      !.link = link, !.runtime_link = runtime_link, !.pc = "start"]
         /\ \E present \in SUBSET probed(side, hint, platform) :
                path_files = {join2(os, bin_dir(os), f) : f \in present}
    /\ files = {}
    /\ args = NoRequest
    /\ self = BuildParameters(os, args)
    /\ gen = [state |-> "created", build_dir |-> NoDir, i |-> 0, j |-> 0, k |-> 0]
    /\ fs = {cwd(os), self.boost_dir}
    /\ yielded = <<>>
    /\ combos = <<>>
    /\ consumer = [pc |-> "idle", handled |-> 0, outcome |-> "ok"]
    /\ ci = NoAdapter
    /\ en = NoEnum
    /\ ex = NoExe

NextToolchain ==
    \/ BoostDetectPlain
    \/ BoostDetectConfigFile
    \/ BoostDetectFails
    \/ BoostB2Args
    \/ BoostExit
    \/ CMakeDetectPlain
    \/ CMakeDetectMakefile
    \/ CMakeArgs
    \/ CMakeExit
    \/ BootstrapArgs

SpecToolchain == InitToolchain /\ [][NextToolchain]_vars

----------------------------------------------------------------------------
(* The requests.                                                           *)

\* Pass-through arguments of a request.
B2ArgLists == {<<>>, <<"--with-filesystem", "link=static">>}

Requests ==
    {a \in [boost_dir      : {<<"boost_1_71_0">>},
            build_dir      : {NoDir, <<"build">>},
            platforms      : SeqsUpTo(Platform, MaxItems),
            configurations : SeqsUpTo(Configuration, MaxItems),
            link           : SeqsUpTo(Linkage, MaxItems),
            runtime_link   : Linkage \cup {None},
            b2_args        : B2ArgLists] :
        Len(a.platforms) + Len(a.configurations) + Len(a.link) <= MaxItems}

Init ==
    /\ os \in OS
    /\ args \in Requests
    /\ self = BuildParameters(os, args)
    /\ gen = [state |-> "created", build_dir |-> NoDir, i |-> 0, j |-> 0, k |-> 0]
    /\ fs = {cwd(os), self.boost_dir}
            \cup (IF self.build_dir # NoDir THEN {self.build_dir} ELSE {})
    /\ yielded = <<>>
    /\ combos = <<>>
    /\ consumer = [pc |-> "iterating", handled |-> 0, outcome |-> "ok"]
    /\ path_files = {}
    /\ files = {}
    /\ tc = NoToolchain
    /\ ci = NoAdapter
    /\ en = NoEnum
    /\ ex = NoExe

Next ==
    \/ GenStart
    \/ GenResume
    \/ GenExhaust
    \/ GenClose
    \/ ConsumerHandled
    \/ ConsumerRaise
    \/ ConsumerBreak
    \/ ConsumerReturn

Spec == Init /\ [][Next]_vars

----------------------------------------------------------------------------
(* The AppVeyor adapter (project/ci/appveyor/cmake.py).                    *)

\* class Image: the members and their values.
Image == {"VS_2013", "VS_2015", "VS_2017", "VS_2019"}

Image_value(m) ==
    CASE m = "VS_2013" -> "Visual Studio 2013"
      [] m = "VS_2015" -> "Visual Studio 2015"
      [] m = "VS_2017" -> "Visual Studio 2017"
      [] m = "VS_2019" -> "Visual Studio 2019"

\* Image.__str__ with the member's name in place of its value.
Image_str_name(m) == m

\* Image.__str__
Image_str(m) == Image_value(m)

\* _parse_image: Image(s) looks the member up by its value.
_parse_image(s) ==
    IF \E m \in Image : Image_value(m) = s
    THEN returned(CHOOSE m \in Image : Image_value(m) = s)
    ELSE raised("unsupported AppVeyor image: " \o s)

\* class Generator
Generator == {"VS_2013", "VS_2015", "VS_2017", "VS_2019"}

Generator_value(g) ==
    CASE g = "VS_2013" -> "Visual Studio 12 2013"
      [] g = "VS_2015" -> "Visual Studio 14 2015"
      [] g = "VS_2017" -> "Visual Studio 15 2017"
      [] g = "VS_2019" -> "Visual Studio 16 2019"

\* Generator.__str__
Generator_str(g) == Generator_value(g)

\* Generator.from_image
from_image(image) ==
    CASE image = "VS_2013" -> returned("VS_2013")
      [] image = "VS_2015" -> returned("VS_2015")
      [] image = "VS_2017" -> returned("VS_2017")
      [] image = "VS_2019" -> returned("VS_2019")
      [] OTHER -> raised("don't know which generator to use for image: " \o image)

\* class Platform of the adapter: the members and their values.
appveyor_Platform == {"x86", "X64"}

appveyor_Platform_value(m) == IF m = "x86" THEN "Win32" ELSE "x64"

\* Platform.__str__ of the adapter
appveyor_Platform_str(m) == appveyor_Platform_value(m)

\* _parse_platform
_parse_platform(s) ==
    IF \E m \in appveyor_Platform : appveyor_Platform_value(m) = s
    THEN returned(CHOOSE m \in appveyor_Platform : appveyor_Platform_value(m) = s)
    ELSE raised("unsupported AppVeyor platform: " \o s)

\* _env
_env(environ, name) ==
    IF name \notin DOMAIN environ
    THEN raised("undefined environment variable: " \o name)
    ELSE returned(environ[name])

\* _check_appveyor
_check_appveyor(environ) ==
    IF "APPVEYOR" \notin DOMAIN environ
    THEN raised("not running on AppVeyor") ELSE returned("")

\* _get_build_dir of the AppVeyor adapter
appveyor_get_build_dir == "C:\\Projects\\build"

\* _get_generator
_get_generator(environ) ==
    LET name == _env(environ, "APPVEYOR_BUILD_WORKER_IMAGE")
        image == _parse_image(name.value)
        generator == from_image(image.value)
    IN  IF name.raised THEN name
        ELSE IF image.raised THEN image
        ELSE IF generator.raised THEN generator
        ELSE returned(Generator_str(generator.value))

\* _get_platform of the AppVeyor adapter
appveyor_get_platform(environ) ==
    LET name == _env(environ, "PLATFORM")
        platform == _parse_platform(name.value)
    IN  IF name.raised THEN name
        ELSE IF platform.raised THEN platform
        ELSE returned(appveyor_Platform_str(platform.value))

\* How a run of an adapter ends: whether it raised, the error, the names it
\* looked up in os.environ in order, and the steps it invoked in order.
ended(error, reads, steps) ==
    [pc |-> IF error = "" THEN "done" ELSE "failed", error |-> error,
     reads |-> reads, steps |-> steps]

\* The error a step of the underlying build script ends with.
step_failed == "build script failed"

\* build_appveyor that resolves the generator after the build has run.
build_appveyor_late_generator(environ, a, build_ok) ==
    LET configuration == _env(environ, "CONFIGURATION")
        src_dir == _env(environ, "APPVEYOR_BUILD_FOLDER")
        generator == _get_generator(environ)
        platform == appveyor_get_platform(environ)
        r1 == <<"APPVEYOR">>
        r2 == r1 \o <<"CONFIGURATION">>
        r3 == r2 \o <<"APPVEYOR_BUILD_FOLDER">>
        r4 == r3 \o <<"PLATFORM">>
        r5 == r4 \o <<"APPVEYOR_BUILD_WORKER_IMAGE">>
        step == [step |-> "build", argv |-> <<"--build", appveyor_get_build_dir>>]
    IN  IF _check_appveyor(environ).raised
        THEN ended(_check_appveyor(environ).error, r1, <<>>)
        ELSE IF configuration.raised THEN ended(configuration.error, r2, <<>>)
        ELSE IF src_dir.raised THEN ended(src_dir.error, r3, <<>>)
        ELSE IF platform.raised THEN ended(platform.error, r4, <<>>)
        ELSE IF ~build_ok THEN ended(step_failed, r4, <<step>>)
        ELSE IF generator.raised THEN ended(generator.error, r5, <<step>>)
        ELSE ended("", r5, <<step>>)

\* build_appveyor: the arguments of a are those of _parse_args; build_ok is
\* whether build() returns.
build_appveyor(environ, a, build_ok) ==
    LET configuration == _env(environ, "CONFIGURATION")
        src_dir == _env(environ, "APPVEYOR_BUILD_FOLDER")
        generator == _get_generator(environ)
        platform == appveyor_get_platform(environ)
        r1 == <<"APPVEYOR">>
        r2 == r1 \o <<"CONFIGURATION">>
        r3 == r2 \o <<"APPVEYOR_BUILD_FOLDER">>
        r4 == r3 \o <<"APPVEYOR_BUILD_WORKER_IMAGE">>
        r5 == r4 \o <<"PLATFORM">>
        appveyor_argv ==
            <<"--build", appveyor_get_build_dir,
              "--configuration", configuration.value>>
            \o (IF a.install_dir # None THEN <<"--install", a.install_dir>>
                ELSE <<>>)
            \o <<"--", src_dir.value, "-G", generator.value,
                 "-A", platform.value>>
        step == [step |-> "build", argv |-> appveyor_argv \o a.cmake_args]
    IN  IF _check_appveyor(environ).raised
        THEN ended(_check_appveyor(environ).error, r1, <<>>)
        ELSE IF configuration.raised THEN ended(configuration.error, r2, <<>>)
        ELSE IF src_dir.raised THEN ended(src_dir.error, r3, <<>>)
        ELSE IF generator.raised THEN ended(generator.error, r4, <<>>)
        ELSE IF platform.raised THEN ended(platform.error, r5, <<>>)
        ELSE IF ~build_ok THEN ended(step_failed, r5, <<step>>)
        ELSE ended("", r5, <<step>>)

\* One run of build_appveyor.
BuildAppveyor ==
    /\ ci.adapter = "appveyor"
    /\ ci.pc = "start"
    /\ \E build_ok \in BOOLEAN :
         LET e == build_appveyor(ci.environ, ci.args, build_ok)
         IN  ci' = [ci EXCEPT !.pc = e.pc, !.error = e.error,
                              !.reads = e.reads, !.steps = e.steps]
    /\ UNCHANGED <<os, bvars, tvars, en, ex>>

----------------------------------------------------------------------------
(* The Travis adapter (boost/build/ci/travis.py).                          *)

\* _check_travis
_check_travis(environ) ==
    IF "TRAVIS" \notin DOMAIN environ
    THEN raised("not running on Travis") ELSE returned("")

\* BoostVersion.dir_path (boost/build/build.py): the directory the archive
\* of a version unpacks to, boost_ and the version with its dots replaced.
RECURSIVE underscored(_, _)
underscored(v, n) ==
    IF n > Len(v) THEN ""
    ELSE (IF SubSeq(v, n, n) = "." THEN "_" ELSE SubSeq(v, n, n))
         \o underscored(v, n + 1)

BoostVersion_dir_path(o, version, build_dir) ==
    join2(o, build_dir, "boost_" \o underscored(version, 1))

\* _get_boost_dir
_get_boost_dir(o, home) == join2(o, home, "boost")

\* build_travis that runs the download before it looks for TRAVIS.
build_travis_unchecked(o, environ, a, download_ok, build_ok) ==
    LET version == _env(environ, "travis_boost_version")
        home == _env(environ, "HOME")
        download == [step |-> "download", argv |-> <<"download">>]
    IN  IF version.raised
        THEN ended(version.error, <<"travis_boost_version">>, <<>>)
        ELSE IF home.raised
        THEN ended(home.error, <<"travis_boost_version", "HOME">>, <<>>)
        ELSE ended(IF download_ok /\ build_ok THEN "" ELSE step_failed,
                   <<"travis_boost_version", "HOME", "TRAVIS">>,
                   <<download, [step |-> "build", argv |-> <<"build">>]>>)

\* build_travis: the arguments of a are those of _parse_args; download_ok
\* and build_ok are whether the two calls of build_main return.
build_travis(o, environ, a, download_ok, build_ok) ==
    LET version == _env(environ, "travis_boost_version")
        home == _env(environ, "HOME")
        configuration == _env(environ, "configuration")
        platform == _env(environ, "platform")
        r1 == <<"TRAVIS">>
        r2 == r1 \o <<"travis_boost_version">>
        r3 == r2 \o <<"HOME">>
        r5 == r3 \o <<"HOME", "HOME">>
        r6 == r5 \o <<"configuration">>
        r7 == r6 \o <<"platform">>
        download ==
            [step |-> "download",
             argv |-> <<"download", "--unpack", home.value, "--", version.value>>]
        unpacked_boost_dir == BoostVersion_dir_path(o, version.value, home.value)
        boost_dir == _get_boost_dir(o, home.value)
        rename ==
            [step |-> "rename", argv |-> <<unpacked_boost_dir, boost_dir>>]
        travis_argv ==
            <<"build", "--configuration", configuration.value,
              "--platform", platform.value>>
            \o (IF a.link.given THEN <<"--link">> \o a.link.values ELSE <<>>)
            \o (IF a.runtime_link # None
                THEN <<"--runtime-link", a.runtime_link>> ELSE <<>>)
            \o <<"--", boost_dir>>
        build == [step |-> "build", argv |-> travis_argv \o a.b2_args]
    IN  IF _check_travis(environ).raised
        THEN ended(_check_travis(environ).error, r1, <<>>)
        ELSE IF version.raised THEN ended(version.error, r2, <<>>)
        ELSE IF home.raised THEN ended(home.error, r3, <<>>)
        ELSE IF ~download_ok THEN ended(step_failed, r3, <<download>>)
        ELSE IF configuration.raised
        THEN ended(configuration.error, r6, <<download, rename>>)
        ELSE IF platform.raised
        THEN ended(platform.error, r7, <<download, rename>>)
        ELSE IF ~build_ok THEN ended(step_failed, r7, <<download, rename, build>>)
        ELSE ended("", r7, <<download, rename, build>>)

\* One run of build_travis.
BuildTravis ==
    /\ ci.adapter = "travis"
    /\ ci.pc = "start"
    /\ \E download_ok \in BOOLEAN, build_ok \in BOOLEAN :
         LET e == build_travis(os, ci.environ, ci.args, download_ok, build_ok)
         IN  ci' = [ci EXCEPT !.pc = e.pc, !.error = e.error,
                              !.reads = e.reads, !.steps = e.steps]
    /\ UNCHANGED <<os, bvars, tvars, en, ex>>

----------------------------------------------------------------------------
(* The runs of the CI adapters.                                            *)

\* The environments: each variable is undefined or has one of its values.
Environments(values) ==
    UNION {[defined -> UNION {values[n] : n \in defined}] :
               defined \in SUBSET DOMAIN values}

\* The variables AppVeyor defines, with values it gives them and values it
\* does not.
AppveyorValues ==
    [APPVEYOR |-> {"True"},
     CONFIGURATION |-> {"Debug", "Release"},
     APPVEYOR_BUILD_FOLDER |-> {"C:\\projects\\app"},
     APPVEYOR_BUILD_WORKER_IMAGE |->
         {Image_value(m) : m \in Image} \cup {"Visual Studio 2022", "VS_2019"},
     PLATFORM |-> {"Win32", "x64", "x86"}]

\* The variables Travis and the build matrix define.
TravisValues ==
    [TRAVIS |-> {"true"},
     travis_boost_version |-> {"1.65.0"},
     HOME |-> {"/home/travis"},
     configuration |-> {"Debug", "Release"},
     platform |-> {"x86", "x64"}]

\* The environments in which every variable has a value of its own.
EnvironmentsOf(values) ==
    {e \in Environments(values) : \A n \in DOMAIN e : e[n] \in values[n]}

\* --link of the Travis adapter: not given (None), or given with its values.
LinkArgs ==
    {[given |-> FALSE, values |-> <<>>], [given |-> TRUE, values |-> <<"static">>]}

\* The command lines of the adapters, as _parse_args reads them.
AdapterArgs ==
    [install_dir : {None, "C:\\install"}, cmake_args : {<<>>, <<"-DTEST=ON">>},
     link : LinkArgs, runtime_link : {None, "shared"},
     b2_args : {<<>>, <<"--with-test">>}]

InitCI ==
    /\ \E adapter \in {"appveyor", "travis"} :
         /\ os \in (IF adapter = "appveyor" THEN {"windows"} ELSE {"linux"})
         /\ \E environ \in EnvironmentsOf(IF adapter = "appveyor"
                                          THEN AppveyorValues ELSE TravisValues),
               a \in AdapterArgs :
              /\ adapter = "appveyor" =>
                     ~a.link.given /\ a.runtime_link = None /\ a.b2_args = <<>>
              /\ adapter = "travis" =>
                     a.install_dir = None /\ a.cmake_args = <<>>
              /\ ci = [NoAdapter EXCEPT !.adapter = adapter, !.environ = environ,
                                        !.args = a, !.pc = "start"]
    /\ en = NoEnum
    /\ ex = NoExe
    /\ path_files = {}
    /\ files = {}
    /\ tc = NoToolchain
    /\ args = NoRequest
    /\ self = BuildParameters(os, args)
    /\ gen = [state |-> "created", build_dir |-> NoDir, i |-> 0, j |-> 0, k |-> 0]
    /\ fs = {cwd(os), self.boost_dir}
    /\ yielded = <<>>
    /\ combos = <<>>
    /\ consumer = [pc |-> "idle", handled |-> 0, outcome |-> "ok"]

NextCI ==
    \/ BuildAppveyor
    \/ BuildTravis

SpecCI == InitCI /\ [][NextCI]_vars

----------------------------------------------------------------------------
(* The enumerations as strings: __str__ and parse, the type= of the        *)
(* command-line options (project/boost/build.py, _parse_args).             *)

\* ToolchainType.__str__ (project/toolchain.py)
ToolchainType_str(t) ==
    CASE t = "AUTO" -> "auto"
      [] t = "MSVC" -> "msvc"
      [] t = "GCC" -> "gcc"
      [] t = "MINGW" -> "mingw"
      [] t = "CLANG" -> "clang"
      [] t = "CLANG_CL" -> "clang-cl"

\* The enumerations.
EnumKinds ==
    {"Platform", "Configuration", "Linkage", "ToolchainType", "Image",
     "appveyor.Platform"}

\* The members of an enumeration.
members(kind) ==
    CASE kind = "Platform" -> Platform
      [] kind = "Configuration" -> Configuration
      [] kind = "Linkage" -> Linkage
      [] kind = "ToolchainType" -> ToolchainType
      [] kind = "Image" -> Image
      [] kind = "appveyor.Platform" -> appveyor_Platform

\* str(member)
enum_str(kind, m) ==
    CASE kind = "Platform" -> Platform_str(m)
      [] kind = "Configuration" -> Configuration_str(m)
      [] kind = "Linkage" -> Linkage_str(m)
      [] kind = "ToolchainType" -> ToolchainType_str(m)
      [] kind = "Image" -> Image_str(m)
      [] kind = "appveyor.Platform" -> appveyor_Platform_str(m)

\* Platform.parse, Configuration.parse, Linkage.parse, ToolchainType.parse:
\* the member whose string is s, an error when there is none.
project_parse(kind, s) ==
    IF \E m \in members(kind) : enum_str(kind, m) = s
    THEN returned(CHOOSE m \in members(kind) : enum_str(kind, m) = s)
    ELSE raised("invalid " \o kind \o ": " \o s)

\* The parse function of an enumeration.
enum_parse(kind, s) ==
    CASE kind = "Image" -> _parse_image(s)
      [] kind = "appveyor.Platform" -> _parse_platform(s)
      [] OTHER -> project_parse(kind, s)

\* The strings given to the parse functions: the strings of every member of
\* every enumeration, names of members, and strings of no member.
EnumTexts ==
    UNION {{enum_str(kind, m) : m \in members(kind)} : kind \in EnumKinds}
    \cup {"X64", "VS_2019", "CLANG_CL", "Debug", "Visual Studio 2022",
          "clang_cl", ""}

\* A string is parsed: the member, or the error.
EnumParse ==
    /\ en.pc = "parse"
    /\ LET r == enum_parse(en.kind, en.text)
       IN  en' = IF r.raised
                 THEN [en EXCEPT !.pc = "failed", !.error = r.error]
                 ELSE [en EXCEPT !.value = r.value,
                                 !.pc = IF en.origin = "text" THEN "str"
                                        ELSE "done"]
    /\ UNCHANGED <<os, bvars, tvars, ci, ex>>

\* A member is stringified.
EnumStr ==
    /\ en.pc = "str"
    /\ en' = [en EXCEPT !.text = enum_str(en.kind, en.value),
                        !.pc = IF en.origin = "member" THEN "parse" ELSE "done"]
    /\ UNCHANGED <<os, bvars, tvars, ci, ex>>

InitEnum ==
    /\ os = "linux"
    /\ \E kind \in EnumKinds :
         \/ \E s \in EnumTexts :
              en = [NoEnum EXCEPT !.kind = kind, !.origin = "text",
                                  !.given = s, !.text = s, !.pc = "parse"]
         \/ \E m \in members(kind) :
              en = [NoEnum EXCEPT !.kind = kind, !.origin = "member",
                                  !.given = m, !.value = m, !.pc = "str"]
    /\ ci = NoAdapter
    /\ ex = NoExe
    /\ path_files = {}
    /\ files = {}
    /\ tc = NoToolchain
    /\ args = NoRequest
    /\ self = BuildParameters(os, args)
    /\ gen = [state |-> "created", build_dir |-> NoDir, i |-> 0, j |-> 0, k |-> 0]
    /\ fs = {cwd(os), self.boost_dir}
    /\ yielded = <<>>
    /\ combos = <<>>
    /\ consumer = [pc |-> "idle", handled |-> 0, outcome |-> "ok"]

NextEnum ==
    \/ EnumParse
    \/ EnumStr

SpecEnum == InitEnum /\ [][NextEnum]_vars

----------------------------------------------------------------------------
(* The resolution of compiler executables: _full_exe_name on the names a   *)
(* toolset can be made with.                                               *)

\* A directory outside the search path.
opt_dir(o) == IF on_windows(o) THEN "D:\\gcc\\bin" ELSE "/opt/gcc/bin"

\* The names given to _full_exe_name: bare and directory-qualified, with and
\* without the extension.
ExeNames(o) ==
    {"g++", "g++.exe", join2(o, opt_dir(o), "g++"), join2(o, opt_dir(o), "g++.exe")}

\* The files that may exist, in the search path and outside it.
ExeFiles(o) ==
    {join2(o, d, f) : d \in {bin_dir(o), opt_dir(o)}, f \in {"g++", "g++.exe"}}

\* _full_exe_name is called.
FullExeName ==
    /\ ex.pc = "start"
    /\ LET r == _full_exe_name(os, ex.present, ex.exe)
       IN  ex' = [ex EXCEPT !.pc = "returned", !.raised = r.raised,
                           !.value = r.value, !.error = r.error]
    /\ UNCHANGED <<os, bvars, tvars, ci, en>>

InitExe ==
    /\ os \in OS
    /\ \E exe \in ExeNames(os), present \in SUBSET ExeFiles(os) :
         ex = [NoExe EXCEPT !.exe = exe, !.present = present, !.pc = "start"]
    /\ ci = NoAdapter
    /\ en = NoEnum
    /\ path_files = {}
    /\ files = {}
    /\ tc = NoToolchain
    /\ args = NoRequest
    /\ self = BuildParameters(os, args)
    /\ gen = [state |-> "created", build_dir |-> NoDir, i |-> 0, j |-> 0, k |-> 0]
    /\ fs = {cwd(os), self.boost_dir}
    /\ yielded = <<>>
    /\ combos = <<>>
    /\ consumer = [pc |-> "idle", handled |-> 0, outcome |-> "ok"]

NextExe == FullExeName

SpecExe == InitExe /\ [][NextExe]_vars

----------------------------------------------------------------------------
(* The linkage resolver.                                                   *)

\* enum_b2_args has just yielded: the consumer holds the newest argument
\* list.  The lists yielded so far change in no other state.
just_yielded == consumer.pc = "handling"

\* The library linkage requested for the n-th yield.
requested_link(n) == self.link[combos[n].k]

\* C1: for a request whose library linkage is shared and whose runtime
\* linkage is static, on any OS, _linkage_options yields that library
\* linkage paired with runtime linkage shared.
C1_SharedLibraryGetsSharedRuntime ==
    just_yielded => \A n \in 1..Len(combos) :
        (requested_link(n) = SHARED /\ self.runtime_link = STATIC)
            => (combos[n].link = SHARED /\ combos[n].runtime_link = SHARED)

\* A shared library with a static runtime was requested off Linux and the
\* pair (shared, shared) was yielded.
C1_Witness ==
    \E n \in 1..Len(combos) :
        /\ ~on_linux(os)
        /\ requested_link(n) = SHARED
        /\ self.runtime_link = STATIC
        /\ combos[n].runtime_link = SHARED

\* C2: when the requested runtime linkage is static and the OS is Linux,
\* _linkage_options yields runtime linkage shared for every requested
\* library linkage; when the requested runtime linkage is static, the
\* library linkage is static and the OS is not Linux, it yields runtime
\* linkage static.
C2_StaticRuntimeOnLinuxAndElsewhere ==
    just_yielded => \A n \in 1..Len(combos) :
        /\ (self.runtime_link = STATIC /\ on_linux(os))
               => combos[n].runtime_link = SHARED
        /\ (self.runtime_link = STATIC /\ requested_link(n) = STATIC /\ ~on_linux(os))
               => combos[n].runtime_link = STATIC

\* On Linux a static library with a static runtime was requested and the
\* runtime linkage yielded is shared.
C2_Witness ==
    \E n \in 1..Len(combos) :
        /\ on_linux(os)
        /\ requested_link(n) = STATIC
        /\ self.runtime_link = STATIC
        /\ combos[n].runtime_link = SHARED

\* C3: the linkage resolver has no error outcome: every yield carries a
\* pair of linkages, never (library shared, runtime static), and never
\* runtime static on Linux.
C3_AlwaysLegalPair ==
    just_yielded => \A n \in 1..Len(combos) :
        /\ combos[n].link \in Linkage
        /\ combos[n].runtime_link \in Linkage
        /\ ~(combos[n].link = SHARED /\ combos[n].runtime_link = STATIC)
        /\ ~(on_linux(os) /\ combos[n].runtime_link = STATIC)

\* On Linux a shared library with a static runtime was requested, and a
\* pair was yielded for it all the same.
C3_Witness ==
    \E n \in 1..Len(combos) :
        /\ on_linux(os)
        /\ requested_link(n) = SHARED
        /\ self.runtime_link = STATIC
        /\ combos[n].link = SHARED
        /\ combos[n].runtime_link = SHARED

----------------------------------------------------------------------------
(* The expansion.                                                          *)

\* The --stagedir flags an argument list carries.
stagedir_flags(l) ==
    {l[x] : x \in {y \in 1..Len(l) : StartsWith(l[y], "--stagedir=")}}

\* C4, as claimed: no two argument lists of one expansion carry the same
\* --stagedir flag value.  Checked at each yield, of the newest list and
\* every list before it: every pair of lists is the newest list and an
\* earlier one in some state.
C4_StagedirUniquePerList ==
    just_yielded =>
        \A m \in 1..(Len(yielded) - 1) :
            stagedir_flags(yielded[m]) # stagedir_flags(yielded[Len(yielded)])

\* C4, amended: every argument list carries one --stagedir flag, and two
\* argument lists of one expansion carry the same --stagedir flag value
\* exactly when they were produced for the same platform and the same
\* configuration.  Checked at each yield, of the newest list and every
\* list so far.
C4_StagedirPerPlatformAndConfiguration ==
    just_yielded =>
        LET N == Len(yielded)
        IN  \A m \in 1..N :
                /\ Cardinality(stagedir_flags(yielded[m])) = 1
                /\ (stagedir_flags(yielded[m]) = stagedir_flags(yielded[N]))
                       <=> (/\ combos[m].platform = combos[N].platform
                            /\ combos[m].configuration = combos[N].configuration)

\* Two lists of one expansion differ in the library linkage only and carry
\* the same --stagedir, and a third, for another configuration, carries
\* another.
C4_Witness ==
    \E m, n, q \in 1..Len(yielded) :
        /\ combos[m].link # combos[n].link
        /\ stagedir_flags(yielded[m]) = stagedir_flags(yielded[n])
        /\ combos[q].configuration # combos[m].configuration
        /\ stagedir_flags(yielded[q]) # stagedir_flags(yielded[m])

C6_SixFlagsThenPassThrough ==
    just_yielded => \A n \in 1..Len(yielded) :
        LET l == yielded[n]
        IN  /\ Len(l) = 6 + Len(args.b2_args)
            /\ StartsWith(l[1], "--build-dir=")
            /\ StartsWith(l[2], "--stagedir=")
            /\ StartsWith(l[3], "link=")
            /\ StartsWith(l[4], "runtime-link=")
            /\ StartsWith(l[5], "address-model=")
            /\ StartsWith(l[6], "variant=")
            /\ SubSeq(l, 7, Len(l)) = args.b2_args

\* An argument list was produced for a request with two pass-through
\* arguments.
C6_Witness ==
    /\ Len(args.b2_args) = 2
    /\ Len(yielded) >= 2
    /\ yielded[2][7] = args.b2_args[1]

\* The position of the n-th combination when the platforms are the outer
\* loop, the configurations the middle loop and the linkages the inner.
nth_position(n) ==
    LET L == Len(self.link)
        C == Len(self.configurations)
    IN  [i |-> ((n - 1) \div (L * C)) + 1,
         j |-> (((n - 1) \div L) % C) + 1,
         k |-> ((n - 1) % L) + 1]

\* C7: enum_b2_args yields one argument list per (platform, configuration,
\* library linkage) combination, |platforms| * |configurations| * |link|
\* lists in all, platforms outermost, configurations in the middle,
\* linkages innermost, each in the order of its list.
C7_OnePerCombinationInLoopOrder ==
    /\ Len(yielded) = Len(combos)
    /\ Len(yielded) <= Len(self.platforms) * Len(self.configurations) * Len(self.link)
    /\ gen.state = "exhausted" =>
           Len(yielded) = Len(self.platforms) * Len(self.configurations) * Len(self.link)
    /\ just_yielded => \A n \in 1..Len(yielded) :
           LET p == nth_position(n)
           IN  /\ combos[n].platform = self.platforms[p.i]
               /\ combos[n].configuration = self.configurations[p.j]
               /\ combos[n].link = self.link[p.k]
               /\ yielded[n][3] = "link=" \o Linkage_str(self.link[p.k])
               /\ yielded[n][5] = "address-model="
                                      \o ToString(get_address_model(self.platforms[p.i]))
               /\ yielded[n][6] = "variant=" \o to_boost_variant(self.configurations[p.j])

\* An expansion of two platforms, two configurations and two linkages was
\* consumed to its end.
C7_Witness ==
    /\ gen.state = "exhausted"
    /\ Len(self.platforms) = 2
    /\ self.platforms[1] # self.platforms[2]
    /\ Len(self.configurations) = 2
    /\ Len(self.link) = 2
    /\ Len(yielded) = 8

----------------------------------------------------------------------------
(* The toolchain strategies.                                               *)

\* The strategy of the request is one of the library-build side.
boost_side == tc.side = "boost"

debug_static_requirement ==
    "    <target-os>windows,<runtime-link>static,<variant>debug:<cxxflags>"
        \o "\"-Xclang -flto-visibility-public-std -Xclang --dependent-lib=libcmtd\"\n"

compiler_not_on_path ==
    /\ boost_side
    /\ detect_kind(tc.hint) \in ConfigFileKinds
    /\ tc.pc # "start"
    /\ which(os, path_files, compiler_exe(detect_kind(tc.hint), tc.platform)) = ""

\* The error of _full_exe_name for the compiler of the request.
not_found_error ==
    "executable '" \o compiler_exe(detect_kind(tc.hint), tc.platform)
        \o "' could not be found"

----------------------------------------------------------------------------
(* The CI adapters.                                                        *)

\* The run of the adapter has ended.
ci_ended == ci.pc \in {"done", "failed"}

\* The steps of a kind the run has invoked.
invoked(kind) == {n \in 1..Len(ci.steps) : ci.steps[n].step = kind}

\* The worker image is defined and is none of the four images of Image.
unknown_image ==
    /\ "APPVEYOR_BUILD_WORKER_IMAGE" \in DOMAIN ci.environ
    /\ \A m \in Image : Image_value(m) # ci.environ["APPVEYOR_BUILD_WORKER_IMAGE"]

\* C11: when APPVEYOR_BUILD_WORKER_IMAGE is none of the four known images,
\* a run of build_appveyor ends in an error and has invoked no step: build()
\* is never called.  When the run got as far as the image, the error is the
\* "unsupported AppVeyor image" one.
C11_UnknownImageFailsBeforeBuild ==
    (ci.adapter = "appveyor" /\ ci_ended /\ unknown_image) =>
        /\ ci.pc = "failed"
        /\ ci.steps = <<>>
        /\ ci.reads[Len(ci.reads)] = "APPVEYOR_BUILD_WORKER_IMAGE" =>
               ci.error = "unsupported AppVeyor image: "
                              \o ci.environ["APPVEYOR_BUILD_WORKER_IMAGE"]

\* C11 witness: on AppVeyor, with every other variable defined, a run given
\* the image "Visual Studio 2022" has ended with the unsupported-image error.
C11_Witness ==
    /\ ci.adapter = "appveyor"
    /\ ci_ended
    /\ DOMAIN ci.environ = DOMAIN AppveyorValues
    /\ ci.environ["APPVEYOR_BUILD_WORKER_IMAGE"] = "Visual Studio 2022"
    /\ ci.error = "unsupported AppVeyor image: Visual Studio 2022"
    /\ ci.steps = <<>>

\* The sentinel variable of an adapter.
sentinel == IF ci.adapter = "appveyor" THEN "APPVEYOR" ELSE "TRAVIS"

\* The variables an adapter requires besides its sentinel.
required ==
    IF ci.adapter = "appveyor"
    THEN {"CONFIGURATION", "APPVEYOR_BUILD_FOLDER", "APPVEYOR_BUILD_WORKER_IMAGE",
          "PLATFORM"}
    ELSE {"travis_boost_version", "HOME", "configuration", "platform"}

\* C12: a run of build_appveyor or build_travis whose sentinel variable or
\* any of whose required variables is undefined ends in an error without
\* having invoked the build step; and in every run the first name looked up
\* in the environment is the sentinel, which is looked up once.
C12_MissingVariableFailsBeforeBuild ==
    ci_ended =>
        /\ ci.reads # <<>>
        /\ ci.reads[1] = sentinel
        /\ \A n \in 2..Len(ci.reads) : ci.reads[n] \in required
        /\ (sentinel \notin DOMAIN ci.environ) =>
               /\ ci.pc = "failed"
               /\ ci.reads = <<sentinel>>
               /\ ci.steps = <<>>
        /\ (\E name \in required : name \notin DOMAIN ci.environ) =>
               /\ ci.pc = "failed"
               /\ invoked("build") = {}

\* C12 witness: on Travis, with the platform undefined and all else defined,
\* a run has ended with the undefined-variable error after the download and
\* without the build.
C12_Witness ==
    /\ ci.adapter = "travis"
    /\ ci_ended
    /\ DOMAIN ci.environ = DOMAIN TravisValues \ {"platform"}
    /\ ci.error = "undefined environment variable: platform"
    /\ invoked("download") # {}
    /\ invoked("build") = {}

----------------------------------------------------------------------------
(* The enumerations.                                                       *)

\* The strings of an enumeration.
valid_texts(kind) ==
    CASE kind = "Platform" -> {"x86", "x64"}
      [] kind = "Configuration" -> {"debug", "release"}
      [] kind = "Linkage" -> {"static", "shared"}
      [] kind = "ToolchainType" ->
             {"auto", "msvc", "gcc", "mingw", "clang", "clang-cl"}
      [] kind = "Image" ->
             {"Visual Studio 2013", "Visual Studio 2015", "Visual Studio 2017",
              "Visual Studio 2019"}
      [] kind = "appveyor.Platform" -> {"Win32", "x64"}

----------------------------------------------------------------------------
(* The life of the configuration files.                                    *)

\* The invocation that made the strategy has completed.
invocation_over == tc.pc \in {"exited", "failed"}

\* The path of custom_toolchain.cmake.
cmake_config_path == _get_config_path(os, cmake_build_dir(os))

----------------------------------------------------------------------------
(* The hints auto and msvc.                                                *)

\* The strategy of the request has given its arguments.
strategy_used == tc.pc = "used"

\* C15 as stated: with hint auto no configuration file is written, the
\* bootstrap strategy gives empty lists, the library-build strategy gives the
\* platform's own arguments, and the configuration-tool strategy gives empty
\* lists, but for an architecture flag alone when a platform is requested.
C15_AutoEmitsNothing ==
    (tc.hint = "AUTO" /\ strategy_used) =>
        /\ files = {}
        /\ tc.side = "bootstrap" => tc.bat_args = <<>> /\ tc.sh_args = <<>>
        /\ tc.side = "boost" =>
               tc.b2_args = Platform_b2_args(os, tc.platform, tc.configuration)
        /\ tc.side = "cmake" =>
               /\ tc.build_args = <<>>
               /\ tc.cmake_args =
                      IF tc.platform = None THEN <<>>
                      ELSE <<"-A", get_cmake_arch(tc.platform)>>

\* C15: with hint auto the bootstrap strategy gives empty lists and the
\* library-build strategy gives the platform's own arguments, neither writing
\* a file; the configuration-tool strategy gives empty lists and writes no
\* file when no platform is requested; with a platform it is the msvc
\* strategy on Windows (-A and the architecture to configure, /m to build, no
\* file) and the gcc strategy elsewhere (custom_toolchain.cmake naming gcc and
\* g++ with the -m flag, passed with -D and a makefile generator with -G).
C15_AutoByToolAndPlatform ==
    (tc.hint = "AUTO" /\ strategy_used) =>
        /\ tc.side = "bootstrap" =>
               tc.bat_args = <<>> /\ tc.sh_args = <<>> /\ files = {}
        /\ tc.side = "boost" =>
               /\ tc.b2_args = Platform_b2_args(os, tc.platform, tc.configuration)
               /\ files = {}
        /\ (tc.side = "cmake" /\ tc.platform = None) =>
               tc.cmake_args = <<>> /\ tc.build_args = <<>> /\ files = {}
        /\ (tc.side = "cmake" /\ tc.platform # None /\ on_windows(os)) =>
               /\ tc.cmake_args = <<"-A", get_cmake_arch(tc.platform)>>
               /\ tc.build_args = <<"/m">>
               /\ files = {}
        /\ (tc.side = "cmake" /\ tc.platform # None /\ ~on_windows(os)) =>
               /\ tc.cmake_args =
                      <<"-D", "CMAKE_TOOLCHAIN_FILE=" \o cmake_config_path,
                        "-G", "Unix Makefiles">>
               /\ tc.build_args = <<>>
               /\ \E f \in files :
                      /\ f.path = cmake_config_path
                      /\ Contains(f.content, "set(CMAKE_CXX_COMPILER g++)")
                      /\ Contains(f.content,
                             "-m" \o ToString(get_address_model(tc.platform)))

\* C15 witness: on Linux the configuration-tool strategy for hint auto and
\* platform x64 has given its arguments, and custom_toolchain.cmake exists.
C15_Witness ==
    /\ tc.side = "cmake"
    /\ tc.hint = "AUTO"
    /\ tc.platform = "X64"
    /\ on_linux(os)
    /\ tc.pc = "used"
    /\ written(cmake_config_path) # {}

\* An explicit target-architecture flag among the configure arguments.
has_arch_flag(l) ==
    \E n \in 1..(Len(l) - 1) : l[n] = "-A" /\ l[n + 1] \in {"Win32", "x64"}

\* C16 as stated: with hint msvc, for platform x86, x64 or none, the
\* configure arguments hold an explicit target-architecture flag and no
\* configuration file is written.
C16_MsvcAlwaysEmitsArchitecture ==
    (tc.hint = "MSVC" /\ tc.side = "cmake" /\ strategy_used) =>
        has_arch_flag(tc.cmake_args) /\ files = {}

\* C16: with hint msvc no configuration file is written; the configure
\* arguments are -A and the architecture of the platform (Win32 for x86, x64
\* for x64) when a platform is requested and are empty when none is, the
\* build arguments are /m; the library-build strategy adds toolset=msvc to
\* the platform's own arguments.
C16_MsvcArchitectureWhenPlatformGiven ==
    (tc.hint = "MSVC" /\ strategy_used) =>
        /\ files = {}
        /\ tc.side = "cmake" =>
               /\ tc.build_args = <<"/m">>
               /\ tc.platform = "X86" => tc.cmake_args = <<"-A", "Win32">>
               /\ tc.platform = "X64" => tc.cmake_args = <<"-A", "x64">>
               /\ tc.platform = None => tc.cmake_args = <<>>
        /\ tc.side = "boost" =>
               tc.b2_args = Platform_b2_args(os, tc.platform, tc.configuration)
                                \o <<"toolset=msvc">>

\* C16 witness: the configuration-tool strategy for hint msvc and platform
\* x86 has given -A Win32.
C16_Witness ==
    /\ tc.side = "cmake"
    /\ tc.hint = "MSVC"
    /\ tc.platform = "X86"
    /\ tc.pc = "used"
    /\ tc.cmake_args = <<"-A", "Win32">>

----------------------------------------------------------------------------
(* The resolution of compiler executables.                                 *)

\* The name has a directory.
qualified == str_dirname(os, ex.exe) # ""

\* What shutil.which finds for the name, "" for nothing.
resolved == which(os, ex.present, ex.exe)

\* Both the resolved path and the resolved path with ".exe" exist.
both_exist ==
    /\ exists(os, ex.present, resolved)
    /\ exists(os, ex.present, resolved \o ".exe")

\* C17: _full_exe_name returns the name unchanged on Linux; elsewhere, for a
\* bare name found in the search path, the basename of the executable found,
\* which on Windows ends with the executable suffix; for a name with a
\* directory, the whole path found, in that directory; and on Cygwin the
\* result is what was found with ".exe" appended exactly when both the path
\* found and that path with ".exe" exist.
C17_ResolvedExecutableName ==
    ex.pc = "returned" =>
        /\ on_linux(os) => ~ex.raised /\ ex.value = ex.exe
        /\ (~on_linux(os) /\ resolved # "" /\ ~qualified) =>
               /\ ~ex.raised
               /\ join2(os, bin_dir(os), ex.value) \in
                      {resolved, resolved \o ".exe"}
               /\ on_windows(os) => has_pathext(ex.value)
        /\ (~on_linux(os) /\ resolved # "" /\ qualified) =>
               /\ ~ex.raised
               /\ ex.value \in {resolved, resolved \o ".exe"}
               /\ StartsWith(ex.value, opt_dir(os))
        /\ (on_cygwin(os) /\ resolved # "") =>
               (str_basename(os, ex.value) = str_basename(os, resolved) \o ".exe"
                    <=> both_exist)
        /\ (on_windows(os) /\ resolved # "") =>
               str_basename(os, ex.value) = str_basename(os, resolved)

\* C17 witness: on Cygwin, g++ given with its directory, where g++.exe is
\* the one file there, has been resolved to the whole path with ".exe".
C17_Witness ==
    /\ on_cygwin(os)
    /\ ex.pc = "returned"
    /\ ex.exe = "/opt/gcc/bin/g++"
    /\ ex.present = {"/opt/gcc/bin/g++.exe"}
    /\ ex.value = "/opt/gcc/bin/g++.exe"

----------------------------------------------------------------------------
(* The build directory of an expansion.                                    *)

\* The positions of the --build-dir flags of an argument list.
build_dir_flags(l) == {n \in 1..Len(l) : StartsWith(l[n], "--build-dir=")}

\* C18: every argument list of one expansion carries one --build-dir flag,
\* the same in all of them and naming the directory acquired before the first
\* combination, which exists as long as the generator is suspended; when a
\* build directory was supplied, that directory is the one named, no other
\* directory is created, and the supplied directory is never removed.
C18_OneBuildDirPerExpansion ==
    /\ just_yielded =>
           LET newest == yielded[Len(yielded)]
           IN  /\ build_dir_flags(newest) = {1}
               /\ newest[1] = "--build-dir=" \o path_join(os, gen.build_dir)
               /\ newest[1] = yielded[1][1]
    /\ gen.state = "suspended" => gen.build_dir \in fs
    /\ args.build_dir # NoDir =>
           /\ gen.state # "created" => gen.build_dir = cwd(os) \o args.build_dir
           /\ fs = {cwd(os), self.boost_dir, cwd(os) \o args.build_dir}

\* C18 witness: an expansion with a supplied build directory has been
\* consumed to its end after more than one argument list, and the directory
\* is still there.
C18_Witness ==
    /\ args.build_dir # NoDir
    /\ Len(yielded) >= 2
    /\ gen.state = "exhausted"
    /\ consumer.pc = "returned"
    /\ (cwd(os) \o args.build_dir) \in fs

----------------------------------------------------------------------------
(* The frame of the linkage resolver.                                      *)

\* The linkages the request names for the libraries, all of them when it
\* names none.
requested_links == IF args.link = <<>> THEN <<STATIC, SHARED>> ELSE args.link

\* C19: the pairs of _linkage_options are one per requested library linkage,
\* in the order of the request; the first component of each is that library
\* linkage and the second is shared whenever the requested runtime linkage is
\* shared; the runtime_link and the link stored in BuildParameters stay as
\* the constructor set them.
C19_ResolverKeepsLinkAndSharedRuntime ==
    /\ self.link = requested_links
    /\ self.runtime_link =
           (IF args.runtime_link = None THEN STATIC ELSE args.runtime_link)
    /\ just_yielded => \A n \in 1..Len(combos) :
           /\ combos[n].k = ((n - 1) % Len(requested_links)) + 1
           /\ combos[n].link = requested_links[combos[n].k]
           /\ yielded[n][3] = "link=" \o
                  (IF requested_links[combos[n].k] = STATIC THEN "static"
                   ELSE "shared")
           /\ args.runtime_link = SHARED =>
                  /\ combos[n].runtime_link = SHARED
                  /\ yielded[n][4] = "runtime-link=shared"

\* C19 witness: for a request of shared then static libraries with a shared
\* runtime, both pairs have been yielded, in that order.
C19_Witness ==
    /\ just_yielded
    /\ args.link = <<SHARED, STATIC>>
    /\ args.runtime_link = SHARED
    /\ Len(combos) >= 2
    /\ combos[1].link = SHARED /\ combos[1].runtime_link = SHARED
    /\ combos[2].link = STATIC /\ combos[2].runtime_link = SHARED

====
